---- MODULE Spec2Model ----
(***************************************************************************)
(* Wispa (src/main.py): hold-to-talk dictation.  The keyboard listener     *)
(* thread runs on_press / on_release, which track four modifier flags and  *)
(* call start_recording / stop_recording; the audio stream's callback      *)
(* thread appends chunks to audio_data while the stream is active.         *)
(*                                                                         *)
(* Strings are sequences of one-character strings.  The listener thread's  *)
(* position is pc; the handlers run to completion on that one thread, so   *)
(* a key event that arrives while stop_recording blocks in the             *)
(* transcription call waits in the listener's queue.                       *)
(***************************************************************************)
EXTENDS Integers, Sequences, FiniteSets, TLC

VARIABLES
    USE_CMD, USE_OPTION, USE_CTRL, USE_SHIFT,   \* configuration, main.py:23-26
    cmd_pressed, option_pressed, ctrl_pressed, shift_pressed, \* run() locals
    all_pressed,      \* all_pressed as computed by the last handler
    event,            \* the key event of the running handler, if it has not returned
    handled,          \* some key event has been handled
    held,             \* physical keys down, as of the events handled so far
    queue,            \* events that arrived during the transcription call
    pc,               \* position of the listener thread
    is_recording, audio_data, stream,           \* Wispa fields
    audio, segments, text,  \* locals of stop_recording
    delivered,        \* string handed to the keystroke mechanism by inject_text
    raised,           \* exception that left a handler, "none" if none did
    reported,         \* last diagnostic printed in this session
    openStreams,      \* input streams created and not closed
    transcribing,     \* transcription calls in progress
    queuedStart,      \* the last start_recording was caused by a queued event
    sessionChunks,    \* blocks the stream delivered since start_recording was entered
    stopCall,         \* how the last direct call of stop_recording since then went
    startSounds, streamStops, stopSounds, transcribeCalls, injectCalls
                      \* per session (reset when start_recording is entered)

cfgVars == <<USE_CMD, USE_OPTION, USE_CTRL, USE_SHIFT>>
flagVars == <<cmd_pressed, option_pressed, ctrl_pressed, shift_pressed,
              all_pressed, handled, held>>
keyVars == <<flagVars, event>>
txtVars == <<audio, segments, text, delivered>>
cntVars == <<startSounds, streamStops, stopSounds, transcribeCalls, injectCalls>>
vars == <<cfgVars, keyVars, queue, pc, is_recording, audio_data, stream,
          txtVars, raised, reported, openStreams, transcribing, queuedStart,
          sessionChunks, stopCall, cntVars>>

(***************************************************************************)
(* Bounds                                                                  *)
(***************************************************************************)
\* physical keys the environment uses: the first NumKeys of Keyboard
NumKeys == 6
\* events the listener queues during one transcription call
MaxQueue == 1
\* chunks the audio callback delivers in one session
MaxChunks == 2
\* segments the engine returns
MaxSegs == 2
\* characters in one segment
MaxSegLen == 1
\* frames in one block handed to the audio callback
MaxFrames == 2

(***************************************************************************)
(* Keys                                                                    *)
(***************************************************************************)
Keyboard ==
    << "cmd_l", "cmd_r", "alt_l", "ctrl_l", "shift_l", "a",
       "alt_r", "ctrl_r", "shift_r", "cmd", "alt", "ctrl", "shift" >>

EnvKeys == { Keyboard[i] : i \in 1..(IF NumKeys < 13 THEN NumKeys ELSE 13) }

IsCmd(key) == key = "cmd" \/ key = "cmd_l" \/ key = "cmd_r"
IsAlt(key) == key = "alt" \/ key = "alt_l" \/ key = "alt_r"
IsCtrl(key) == key = "ctrl" \/ key = "ctrl_l" \/ key = "ctrl_r"
IsShift(key) == key = "shift" \/ key = "shift_l" \/ key = "shift_r"

\* all_pressed as it was before USE_SHIFT existed: the shift term is missing
AllPressed_NoShift(c, o, t, s) ==
    /\ (~USE_CMD \/ c)
    /\ (~USE_OPTION \/ o)
    /\ (~USE_CTRL \/ t)

\* all_pressed of on_press / on_release, from the four flags
AllPressed(c, o, t, s) ==
    /\ (~USE_CMD \/ c)
    /\ (~USE_OPTION \/ o)
    /\ (~USE_CTRL \/ t)
    /\ (~USE_SHIFT \/ s)

NoEvent == [type |-> "none", key |-> "none"]
PressOf(k) == [type |-> "press", key |-> k]
ReleaseOf(k) == [type |-> "release", key |-> k]

RECURSIVE AfterEvents(_, _)
AfterEvents(h, q) ==
    IF q = <<>> THEN h
    ELSE AfterEvents(IF Head(q).type = "press" THEN h \cup {Head(q).key}
                     ELSE h \ {Head(q).key}, Tail(q))

\* keys physically down now: those handled plus those still queued
EnvHeld == AfterEvents(held, queue)

\* the keys of the shipped hotkey, one per required role
HotKeys == {"cmd_l", "alt_l", "ctrl_l"}

\* events a keyboard with the keys K can produce when the keys h are down
KeyEvents(K, h) == { PressOf(k) : k \in K \ h } \cup { ReleaseOf(k) : k \in h }

\* the event the listener hands to a handler next: queued events first
Incoming(K) == IF queue # <<>> THEN {Head(queue)} ELSE KeyEvents(K, held)

(***************************************************************************)
(* Text                                                                    *)
(***************************************************************************)
Chars == {" ", "a", "\"", "\\"}
Whitespace == {" "}

StringsUpTo(n) == UNION { [1..k -> Chars] : k \in 0..n }
SegmentLists == UNION { [1..k -> StringsUpTo(MaxSegLen)] : k \in 0..MaxSegs }
\* one answer per branch of "if text": no speech, speech
PlainResults == { <<>>, << <<"a">> >> }

RECURSIVE LStrip(_)
LStrip(s) ==
    IF s = <<>> THEN <<>>
    ELSE IF Head(s) \in Whitespace THEN LStrip(Tail(s)) ELSE s

RECURSIVE RStrip(_)
RStrip(s) ==
    IF s = <<>> THEN <<>>
    ELSE IF s[Len(s)] \in Whitespace THEN RStrip(SubSeq(s, 1, Len(s) - 1)) ELSE s

\* str.strip()
Strip(s) == RStrip(LStrip(s))

\* " ".join(parts)
RECURSIVE Join(_)
Join(parts) ==
    IF parts = <<>> THEN <<>>
    ELSE IF Len(parts) = 1 THEN parts[1]
    ELSE parts[1] \o <<" ">> \o Join(Tail(parts))

\* text = " ".join([segment.text.strip() for segment in segments])
TextOf(segs) == Join([i \in 1..Len(segs) |-> Strip(segs[i])])

\* str.replace(c, r) for a one-character c
RECURSIVE Replace(_, _, _)
Replace(s, c, r) ==
    IF s = <<>> THEN <<>>
    ELSE (IF Head(s) = c THEN r ELSE <<Head(s)>>) \o Replace(Tail(s), c, r)

\* text_with_space.replace("\\", "\\\\").replace('"', '\\"')
Escaped(s) == Replace(Replace(s, "\\", <<"\\", "\\">>), "\"", <<"\\", "\"">>)

\* inject_text escaping the quotes only
ScriptLiteral_QuotesOnly(t) == Replace(t \o <<" ">>, "\"", <<"\\", "\"">>)

\* inject_text: the string placed between the quotes of keystroke "..."
ScriptLiteral(t) == Escaped(t \o <<" ">>)

ScriptError == <<"syntax error">>

\* the string a quoted literal denotes: \x stands for x, a bare " ends it
RECURSIVE LiteralOK(_)
LiteralOK(e) ==
    IF e = <<>> THEN TRUE
    ELSE IF Head(e) = "\\" THEN Len(e) >= 2 /\ LiteralOK(SubSeq(e, 3, Len(e)))
    ELSE IF Head(e) = "\"" THEN FALSE
    ELSE LiteralOK(Tail(e))

RECURSIVE LiteralValue(_)
LiteralValue(e) ==
    IF e = <<>> THEN <<>>
    ELSE IF Head(e) = "\\" THEN <<e[2]>> \o LiteralValue(SubSeq(e, 3, Len(e)))
    ELSE <<Head(e)>> \o LiteralValue(Tail(e))

Keystroke(e) == IF LiteralOK(e) THEN LiteralValue(e) ELSE ScriptError

NoText == <<"none">>

(***************************************************************************)
(* Audio                                                                   *)
(***************************************************************************)
Samples == {1, 2}
\* indata: one block of frames, one channel
Chunks == { << <<s>> >> : s \in Samples }
OneChunk == { << <<1>> >> }
\* blocks of one to MaxFrames frames
Blocks == UNION { [1..n -> { <<s>> : s \in Samples }] : n \in 1..MaxFrames }

\* audio is unbound: no sample array (-1 is no sample)
NoAudio == << -1 >>

\* the chunks joined last first
RECURSIVE Concatenate_Reversed(_)
Concatenate_Reversed(data) ==
    IF data = <<>> THEN <<>> ELSE Concatenate_Reversed(Tail(data)) \o Head(data)

\* np.concatenate(self.audio_data, axis=0)
RECURSIVE Concatenate(_)
Concatenate(data) ==
    IF data = <<>> THEN <<>> ELSE Head(data) \o Concatenate(Tail(data))

\* ndarray.flatten() of a frames x 1 array
Flatten(rows) == [i \in 1..Len(rows) |-> rows[i][1]]

(***************************************************************************)
(* Initial state: Wispa.__init__ has returned, run() has set its flags     *)
(***************************************************************************)
InitState ==
    /\ cmd_pressed = FALSE /\ option_pressed = FALSE
    /\ ctrl_pressed = FALSE /\ shift_pressed = FALSE
    /\ all_pressed = FALSE /\ event = NoEvent /\ handled = FALSE /\ held = {}
    /\ queue = <<>> /\ pc = "idle"
    /\ is_recording = FALSE /\ audio_data = <<>> /\ stream = "none"
    /\ audio = NoAudio /\ segments = <<>> /\ text = <<>> /\ delivered = NoText
    /\ raised = "none" /\ reported = "none"
    /\ openStreams = 0 /\ transcribing = 0 /\ queuedStart = FALSE
    /\ sessionChunks = <<>> /\ stopCall = "none"
    /\ startSounds = 0 /\ streamStops = 0 /\ stopSounds = 0
    /\ transcribeCalls = 0 /\ injectCalls = 0

\* the configuration as shipped
Init ==
    /\ USE_CMD = TRUE /\ USE_OPTION = TRUE /\ USE_CTRL = TRUE /\ USE_SHIFT = FALSE
    /\ InitState

\* any edit of the four USE_ settings
InitAnyConfig ==
    /\ USE_CMD \in BOOLEAN /\ USE_OPTION \in BOOLEAN
    /\ USE_CTRL \in BOOLEAN /\ USE_SHIFT \in BOOLEAN
    /\ InitState

(***************************************************************************)
(* Listener thread: on_press, start_recording                              *)
(***************************************************************************)
\* on_press starting on every event at which all_pressed holds
ShouldStart_Unguarded(ap) == ap

\* on_press: "if all_pressed and not self.is_recording"
ShouldStart(ap) == ap /\ ~is_recording

\* on_release stopping at every release
ShouldStop_AnyRelease(ap) == TRUE

\* on_release: "if self.is_recording and not all_pressed"
ShouldStop(ap) == is_recording /\ ~ap

\* stop_recording without its line 110
RecordingAfterStop_Kept == is_recording

\* stop_recording: "self.is_recording = False"
RecordingAfterStop == FALSE

\* start_recording without its line 79
AudioDataAfterStart_Kept == audio_data

\* start_recording: "self.audio_data = []"
AudioDataAfterStart == <<>>

Dequeued == IF queue # <<>> THEN Tail(queue) ELSE queue

OnPress(K) ==
    /\ pc = "idle"
    /\ \E ev \in Incoming(K) :
        /\ ev.type = "press"
        /\ LET c == IF IsCmd(ev.key) THEN TRUE ELSE cmd_pressed
               o == IF ~IsCmd(ev.key) /\ IsAlt(ev.key) THEN TRUE ELSE option_pressed
               t == IF ~IsCmd(ev.key) /\ ~IsAlt(ev.key) /\ IsCtrl(ev.key)
                    THEN TRUE ELSE ctrl_pressed
               s == IF ~IsCmd(ev.key) /\ ~IsAlt(ev.key) /\ ~IsCtrl(ev.key)
                       /\ IsShift(ev.key)
                    THEN TRUE ELSE shift_pressed
               ap == AllPressed(c, o, t, s)
           IN /\ cmd_pressed' = c /\ option_pressed' = o
              /\ ctrl_pressed' = t /\ shift_pressed' = s
              /\ all_pressed' = ap
              /\ handled' = TRUE
              /\ held' = held \cup {ev.key}
              /\ queue' = Dequeued
              /\ IF ShouldStart(ap)
                 THEN \* start_recording, lines 78-81
                      /\ event' = ev
                      /\ is_recording' = TRUE
                      /\ audio_data' = AudioDataAfterStart
                      /\ sessionChunks' = <<>> /\ stopCall' = "none"
                      /\ reported' = "[REC] Recording..."
                      /\ pc' = "start_stream"
                      /\ queuedStart' = (queue # <<>>)
                      /\ startSounds' = 0 /\ streamStops' = 0 /\ stopSounds' = 0
                      /\ transcribeCalls' = 0 /\ injectCalls' = 0
                 ELSE UNCHANGED <<event, is_recording, audio_data, reported,
                                  pc, queuedStart, sessionChunks, stopCall,
                                  cntVars>>
    /\ UNCHANGED <<cfgVars, stream, txtVars, raised, openStreams, transcribing>>

\* sd.InputStream(...) and stream.start() both succeed
StartStream ==
    /\ pc = "start_stream"
    /\ stream' = "active"
    /\ openStreams' = openStreams + 1
    /\ pc' = "start_sound"
    /\ UNCHANGED <<cfgVars, keyVars, queue, is_recording, audio_data, txtVars,
                   raised, reported, transcribing, queuedStart, cntVars>>
    /\ UNCHANGED <<sessionChunks, stopCall>>

\* start_recording playing the start sound before it opens the stream
StreamOpenFails_AfterSound ==
    /\ pc = "start_stream"
    /\ startSounds' = startSounds + 1
    /\ raised' = "DeviceError"
    /\ pc' = "crashed"
    /\ UNCHANGED <<cfgVars, keyVars, queue, is_recording, audio_data, stream,
                   txtVars, reported, openStreams, transcribing, queuedStart,
                   streamStops, stopSounds, transcribeCalls, injectCalls>>
    /\ UNCHANGED <<sessionChunks, stopCall>>

\* sd.InputStream(...) raises: self.stream keeps its old value
StreamOpenFails ==
    /\ pc = "start_stream"
    /\ raised' = "DeviceError"
    /\ pc' = "crashed"
    /\ UNCHANGED <<cfgVars, keyVars, queue, is_recording, audio_data, stream,
                   txtVars, reported, openStreams, transcribing, queuedStart,
                   cntVars>>
    /\ UNCHANGED <<sessionChunks, stopCall>>

\* sd.InputStream(...) returns, stream.start() raises
StreamStartFails ==
    /\ pc = "start_stream"
    /\ stream' = "open"
    /\ openStreams' = openStreams + 1
    /\ raised' = "DeviceError"
    /\ pc' = "crashed"
    /\ UNCHANGED <<cfgVars, keyVars, queue, is_recording, audio_data, txtVars,
                   reported, transcribing, queuedStart, cntVars>>
    /\ UNCHANGED <<sessionChunks, stopCall>>

\* subprocess.Popen(["afplay", START_SOUND])
StartSound ==
    /\ pc = "start_sound"
    /\ startSounds' = startSounds + 1
    /\ pc' = "idle" /\ event' = NoEvent
    /\ UNCHANGED <<cfgVars, flagVars, queue, is_recording, audio_data, stream,
                   txtVars, raised, reported, openStreams, transcribing,
                   queuedStart, streamStops, stopSounds, transcribeCalls,
                   injectCalls>>
    /\ UNCHANGED <<sessionChunks, stopCall>>

(***************************************************************************)
(* Audio thread: audio_callback, while the stream is active                *)
(***************************************************************************)
AudioCallback(C) ==
    /\ stream = "active"
    /\ Len(audio_data) < MaxChunks
    /\ \E indata \in C :
        /\ audio_data' = Append(audio_data, indata)
        /\ sessionChunks' = Append(sessionChunks, indata)
    /\ UNCHANGED <<cfgVars, keyVars, queue, pc, is_recording, stream, txtVars,
                   raised, reported, openStreams, transcribing, queuedStart,
                   cntVars>>
    /\ UNCHANGED stopCall

(***************************************************************************)
(* Listener thread: on_release, stop_recording, inject_text                *)
(***************************************************************************)
OnRelease(K) ==
    /\ pc = "idle"
    /\ \E ev \in Incoming(K) :
        /\ ev.type = "release"
        /\ LET c == IF IsCmd(ev.key) THEN FALSE ELSE cmd_pressed
               o == IF ~IsCmd(ev.key) /\ IsAlt(ev.key) THEN FALSE ELSE option_pressed
               t == IF ~IsCmd(ev.key) /\ ~IsAlt(ev.key) /\ IsCtrl(ev.key)
                    THEN FALSE ELSE ctrl_pressed
               s == IF ~IsCmd(ev.key) /\ ~IsAlt(ev.key) /\ ~IsCtrl(ev.key)
                       /\ IsShift(ev.key)
                    THEN FALSE ELSE shift_pressed
               ap == AllPressed(c, o, t, s)
           IN /\ cmd_pressed' = c /\ option_pressed' = o
              /\ ctrl_pressed' = t /\ shift_pressed' = s
              /\ all_pressed' = ap
              /\ handled' = TRUE
              /\ held' = held \ {ev.key}
              /\ queue' = Dequeued
              /\ IF ShouldStop(ap) /\ is_recording
                 THEN \* stop_recording, lines 107-110
                      /\ event' = ev
                      /\ is_recording' = RecordingAfterStop
                      /\ pc' = "stop_stream"
                 ELSE UNCHANGED <<event, is_recording, pc>>
    /\ UNCHANGED <<cfgVars, audio_data, stream, txtVars, raised, reported,
                   openStreams, transcribing, queuedStart, cntVars>>
    /\ UNCHANGED <<sessionChunks, stopCall>>

\* stop_recording without its lines 107-108
NotRecording_Never == FALSE

\* stop_recording: "if not self.is_recording: return"
NotRecording == ~is_recording

\* stop_recording called on the object, outside on_release
StopRecording ==
    /\ pc = "idle"
    /\ IF NotRecording
       THEN /\ stopCall' = "noop"
            /\ UNCHANGED <<is_recording, pc>>
       ELSE /\ stopCall' = "stopped"
            /\ is_recording' = RecordingAfterStop
            /\ pc' = "stop_stream"
    /\ UNCHANGED <<cfgVars, keyVars, queue, audio_data, stream, txtVars, raised,
                   reported, openStreams, transcribing, queuedStart,
                   sessionChunks, cntVars>>

\* stop_recording going on without stopping the stream
StopStream_Skipped ==
    /\ pc = "stop_stream"
    /\ pc' = "stop_sound"
    /\ UNCHANGED <<cfgVars, keyVars, queue, is_recording, audio_data, stream,
                   txtVars, raised, reported, openStreams, transcribing,
                   queuedStart, cntVars>>
    /\ UNCHANGED <<sessionChunks, stopCall>>

\* "if self.stream: self.stream.stop(); self.stream.close()"
StopStream ==
    /\ pc = "stop_stream"
    /\ IF stream # "none"
       THEN /\ stream' = "closed"
            /\ openStreams' = IF stream \in {"active", "open"}
                              THEN openStreams - 1 ELSE openStreams
            /\ streamStops' = streamStops + 1
       ELSE UNCHANGED <<stream, openStreams, streamStops>>
    /\ pc' = "stop_sound"
    /\ UNCHANGED <<cfgVars, keyVars, queue, is_recording, audio_data, txtVars,
                   raised, reported, transcribing, queuedStart, startSounds,
                   stopSounds, transcribeCalls, injectCalls>>
    /\ UNCHANGED <<sessionChunks, stopCall>>

\* subprocess.run(["afplay", STOP_SOUND], check=False)
StopSound ==
    /\ pc = "stop_sound"
    /\ stopSounds' = stopSounds + 1
    /\ reported' = "[STOP] Stopped recording, transcribing..."
    /\ pc' = "drain"
    /\ UNCHANGED <<cfgVars, keyVars, queue, is_recording, audio_data, stream,
                   txtVars, raised, openStreams, transcribing, queuedStart,
                   startSounds, streamStops, transcribeCalls, injectCalls>>
    /\ UNCHANGED <<sessionChunks, stopCall>>

\* stop_recording without the test of line 125
NoAudioRecorded_Never(data) == FALSE

\* "if not self.audio_data"
NoAudioRecorded(data) == data = <<>>

\* stop_recording waiting for a first block instead of returning at line 127
Drain_WaitsForAudio ==
    /\ pc = "drain"
    /\ IF NoAudioRecorded(audio_data)
       THEN UNCHANGED <<reported, pc, event, audio, transcribing, transcribeCalls>>
       ELSE /\ audio' = Flatten(Concatenate(audio_data))
            /\ transcribing' = transcribing + 1
            /\ transcribeCalls' = transcribeCalls + 1
            /\ pc' = "transcribe"
            /\ UNCHANGED <<reported, event>>
    /\ UNCHANGED <<cfgVars, flagVars, queue, is_recording, audio_data, stream,
                   segments, text, delivered, raised, openStreams, queuedStart,
                   startSounds, streamStops, stopSounds, injectCalls>>
    /\ UNCHANGED <<sessionChunks, stopCall>>

\* lines 125-152: the empty test, the concatenation, the WAV file, and the
\* call of self.model.transcribe
Drain ==
    /\ pc = "drain"
    /\ IF NoAudioRecorded(audio_data)
       THEN /\ reported' = "No audio recorded!"
            /\ pc' = "idle" /\ event' = NoEvent
            /\ UNCHANGED <<audio, transcribing, transcribeCalls>>
       ELSE /\ audio' = Flatten(Concatenate(audio_data))
            /\ transcribing' = transcribing + 1
            /\ transcribeCalls' = transcribeCalls + 1
            /\ pc' = "transcribe"
            /\ UNCHANGED <<reported, event>>
    /\ UNCHANGED <<cfgVars, flagVars, queue, is_recording, audio_data, stream,
                   segments, text, delivered, raised, openStreams, queuedStart,
                   startSounds, streamStops, stopSounds, injectCalls>>
    /\ UNCHANGED <<sessionChunks, stopCall>>

\* a key event arrives while the listener thread is inside the transcription
\* call: it waits until the handler returns
Enqueue ==
    /\ pc = "transcribe"
    /\ Len(queue) < MaxQueue
    /\ \E ev \in KeyEvents(EnvKeys, EnvHeld) : queue' = Append(queue, ev)
    /\ UNCHANGED <<cfgVars, keyVars, pc, is_recording, audio_data, stream,
                   txtVars, raised, reported, openStreams, transcribing,
                   queuedStart, cntVars>>
    /\ UNCHANGED <<sessionChunks, stopCall>>

\* lines 152-170: the engine returns its segments; "if text" decides
TranscribeReturns(S) ==
    /\ pc = "transcribe"
    /\ \E segs \in S :
        /\ segments' = segs
        /\ text' = TextOf(segs)
        /\ IF TextOf(segs) # <<>>
           THEN \* inject_text(text), lines 179-189
                /\ injectCalls' = injectCalls + 1
                /\ delivered' = Keystroke(ScriptLiteral(TextOf(segs)))
                /\ reported' = "Transcribed"
                /\ pc' = "inject"
           ELSE /\ reported' = "No speech detected!"
                /\ pc' = "cleanup"
                /\ UNCHANGED <<injectCalls, delivered>>
    /\ transcribing' = transcribing - 1
    /\ UNCHANGED <<cfgVars, keyVars, queue, is_recording, audio_data, stream,
                   audio, raised, openStreams, queuedStart, startSounds,
                   streamStops, stopSounds, transcribeCalls>>
    /\ UNCHANGED <<sessionChunks, stopCall>>

\* the WAV write or the engine raises: the finally clause runs, the exception
\* leaves stop_recording and on_release
TranscribeRaises ==
    /\ pc = "transcribe"
    /\ transcribing' = transcribing - 1
    /\ raised' = "TranscriptionError"
    /\ pc' = "crashed"
    /\ UNCHANGED <<cfgVars, keyVars, queue, is_recording, audio_data, stream,
                   txtVars, reported, openStreams, queuedStart, cntVars>>
    /\ UNCHANGED <<sessionChunks, stopCall>>

\* osascript exits 0
InjectReturns ==
    /\ pc = "inject"
    /\ pc' = "cleanup"
    /\ UNCHANGED <<cfgVars, keyVars, queue, is_recording, audio_data, stream,
                   txtVars, raised, reported, openStreams, transcribing,
                   queuedStart, cntVars>>
    /\ UNCHANGED <<sessionChunks, stopCall>>

\* inject_text without its except clause: CalledProcessError leaves it
InjectFails_Escalates ==
    /\ pc = "inject"
    /\ raised' = "InjectionError"
    /\ pc' = "crashed"
    /\ UNCHANGED <<cfgVars, keyVars, queue, is_recording, audio_data, stream,
                   txtVars, reported, openStreams, transcribing, queuedStart,
                   cntVars>>
    /\ UNCHANGED <<sessionChunks, stopCall>>

\* osascript exits non-zero: CalledProcessError is caught and printed
InjectFails ==
    /\ pc = "inject"
    /\ reported' = "Failed to inject text"
    /\ pc' = "cleanup"
    /\ UNCHANGED <<cfgVars, keyVars, queue, is_recording, audio_data, stream,
                   txtVars, raised, openStreams, transcribing, queuedStart,
                   cntVars>>
    /\ UNCHANGED <<sessionChunks, stopCall>>

\* finally: unlink the file; stop_recording and on_release return
Cleanup ==
    /\ pc = "cleanup"
    /\ audio' = NoAudio /\ segments' = <<>> /\ text' = <<>> /\ delivered' = NoText
    /\ pc' = "idle" /\ event' = NoEvent
    /\ UNCHANGED <<cfgVars, flagVars, queue, is_recording, audio_data, stream,
                   raised, reported, openStreams, transcribing, queuedStart,
                   cntVars>>
    /\ UNCHANGED <<sessionChunks, stopCall>>

\* the steps that take no input
Steps ==
    \/ StartStream \/ StreamOpenFails \/ StreamStartFails \/ StartSound
    \/ StopStream \/ StopSound \/ Drain \/ TranscribeRaises
    \/ InjectReturns \/ InjectFails \/ Cleanup

\* the shipped configuration, every key, events queued during transcription
Next ==
    \/ OnPress(EnvKeys) \/ OnRelease(EnvKeys) \/ Enqueue
    \/ AudioCallback(Chunks) \/ TranscribeReturns(PlainResults)
    \/ Steps

Spec == Init /\ [][Next]_vars

\* any configuration, every key
NextKeys ==
    \/ OnPress(EnvKeys) \/ OnRelease(EnvKeys)
    \/ AudioCallback(OneChunk) \/ TranscribeReturns(PlainResults)
    \/ Steps

SpecAnyConfig == InitAnyConfig /\ [][NextKeys]_vars

\* the shipped configuration and hotkey, stop_recording also called directly
NextStop ==
    \/ OnPress(HotKeys) \/ OnRelease(HotKeys) \/ StopRecording
    \/ AudioCallback(OneChunk) \/ TranscribeReturns(PlainResults)
    \/ Steps

SpecStop == Init /\ [][NextStop]_vars

\* the shipped configuration and hotkey, every answer of the engine
NextText ==
    \/ OnPress(HotKeys) \/ OnRelease(HotKeys)
    \/ AudioCallback(OneChunk) \/ TranscribeReturns(SegmentLists)
    \/ Steps

SpecText == Init /\ [][NextText]_vars

\* the same program with the listener thread always going on: every call it
\* makes ends, by returning or by raising
SpecLive ==
    /\ Init /\ [][NextText]_vars
    /\ WF_vars(Steps \/ TranscribeReturns(SegmentLists))

\* the shipped configuration and hotkey, blocks of several frames
NextAudio ==
    \/ OnPress(HotKeys) \/ OnRelease(HotKeys)
    \/ AudioCallback(Blocks) \/ TranscribeReturns(PlainResults)
    \/ Steps

SpecAudio == Init /\ [][NextAudio]_vars

(***************************************************************************)
(* Properties                                                              *)
(***************************************************************************)
Roles == {"cmd", "option", "ctrl", "shift"}

\* the role a physical key maps to in on_press / on_release
RoleOf(key) ==
    IF IsCmd(key) THEN "cmd"
    ELSE IF IsAlt(key) THEN "option"
    ELSE IF IsCtrl(key) THEN "ctrl"
    ELSE IF IsShift(key) THEN "shift"
    ELSE "none"

Required(r) ==
    CASE r = "cmd" -> USE_CMD
      [] r = "option" -> USE_OPTION
      [] r = "ctrl" -> USE_CTRL
      [] r = "shift" -> USE_SHIFT

Flag(r) ==
    CASE r = "cmd" -> cmd_pressed
      [] r = "option" -> option_pressed
      [] r = "ctrl" -> ctrl_pressed
      [] r = "shift" -> shift_pressed

\* C1: after every key event, under every configuration, the all_pressed the
\* handler computed is the conjunction of the flags of exactly the required
\* roles, whatever the other flags and the unmapped keys are.
C1_AllRequiredPressed ==
    handled => (all_pressed <=> \A r \in Roles : Required(r) => Flag(r))

\* cmd and shift are required and pressed; option is not required and up,
\* ctrl is not required and down, and the unmapped key is down
C1_Witness ==
    /\ handled /\ all_pressed
    /\ USE_CMD /\ USE_SHIFT /\ ~USE_OPTION /\ ~USE_CTRL
    /\ ~option_pressed /\ ctrl_pressed /\ "a" \in held

\* C2: a role is registered as pressed exactly while some physical key of
\* that role is down: releasing one of two held keys of a role leaves the
\* role pressed, releasing the last one clears it.
C2_RolePressedWhileAnyKeyHeld ==
    \A r \in Roles : Flag(r) <=> (\E k \in held : RoleOf(k) = r)

\* C3: a press that completes the hotkey while the transcription call is in
\* progress is dropped: it starts no recording, neither during the call
\* (is_recording stays false until the call returns) nor once it has returned.
C3_TriggerDuringTranscribeDropped ==
    /\ pc = "transcribe" => ~is_recording
    /\ ~queuedStart

\* C4: at most one input stream is open and at most one transcription call
\* runs; start_recording is entered only with no stream open and no
\* transcription call running.
C4_OneRecordingAtATime ==
    /\ openStreams <= 1
    /\ transcribing <= 1
    /\ pc = "start_stream" => openStreams = 0 /\ transcribing = 0
    /\ stream = "active" => is_recording \/ pc = "stop_stream"

\* a second session is being started after an earlier one was stopped
C4_Witness == pc = "start_stream" /\ stream = "closed"

StopPcs == {"stop_stream", "stop_sound", "drain", "transcribe", "inject", "cleanup"}

UnpressedRequired == { r \in Roles : Required(r) /\ ~Flag(r) }

\* C5: in one hold and release of the hotkey the start sound is fired once,
\* when recording begins; the stream stop and the stop sound happen once, in
\* the handler of the first release of a required key; the later releases
\* stop nothing, play nothing and transcribe nothing.
C5_OncePerHold ==
    /\ startSounds <= 1 /\ streamStops <= 1 /\ stopSounds <= 1
    /\ transcribeCalls <= 1
    /\ (pc = "idle" /\ is_recording) =>
           startSounds = 1 /\ streamStops = 0 /\ stopSounds = 0
    /\ pc \in StopPcs =>
           /\ event.type = "release"
           /\ UnpressedRequired = {RoleOf(event.key)}
           /\ startSounds = 1
    /\ (pc = "idle" /\ ~is_recording /\ startSounds = 1) =>
           streamStops = 1 /\ stopSounds = 1

\* every key is up again after a session, each of the three having happened once
C5_Witness ==
    /\ pc = "idle" /\ ~is_recording /\ held = {}
    /\ startSounds = 1 /\ streamStops = 1 /\ stopSounds = 1

\* C6: a recording stopped with no chunk delivered reports that no audio was
\* recorded and goes straight back to idle: the engine is not called and
\* nothing is injected.
C6_NoAudioNoTranscription ==
    (streamStops = 1 /\ audio_data = <<>>) =>
        /\ pc \in {"stop_sound", "drain", "idle"}
        /\ transcribeCalls = 0 /\ injectCalls = 0
        /\ transcribing = 0 /\ delivered = NoText
        /\ pc = "idle" => reported = "No audio recorded!"

C6_Witness ==
    /\ pc = "idle" /\ streamStops = 1 /\ audio_data = <<>>
    /\ reported = "No audio recorded!"

\* every segment is empty once trimmed (also: there is no segment)
AllBlank(segs) == \A i \in 1..Len(segs) : Strip(segs[i]) = <<>>

\* C7: when the engine returns no segment, or only segments that are empty
\* after trimming, the injector is not invoked and nothing is delivered.
C7_BlankSegmentsNotInjected ==
    (pc \in {"inject", "cleanup"} /\ AllBlank(segments)) =>
        injectCalls = 0 /\ delivered = NoText

\* C8: a non-empty recognized text is handed to the injector once, and the
\* string delivered is that text followed by one space.
C8_InjectedOnceWithOneSpace ==
    /\ injectCalls <= 1
    /\ (pc \in {"inject", "cleanup"} /\ text # <<>>) =>
           injectCalls = 1 /\ delivered = text \o <<" ">>

\* the text  \ "  (backslash, space, quote) has been injected
C8_Witness ==
    /\ pc = "cleanup" /\ text = <<"\\", " ", "\"">>
    /\ injectCalls = 1 /\ reported = "Transcribed"

\* C9: after a failure to open or start the input stream the session is
\* idle: is_recording is false.
C9_IdleAfterDeviceError == raised = "DeviceError" => ~is_recording

\* C10: after a failure of the transcription call the session is idle
\* (is_recording false, no stream open, no call in progress) and nothing
\* was injected.
C10_IdleAfterTranscriptionError ==
    raised = "TranscriptionError" =>
        /\ ~is_recording /\ openStreams = 0 /\ transcribing = 0
        /\ injectCalls = 0 /\ delivered = NoText

C10_Witness ==
    raised = "TranscriptionError" /\ transcribeCalls = 1 /\ audio_data # <<>>

\* C11: no error of a collaborator (stream open, transcription, injection)
\* ends the key-monitoring loop: the listener goes on handling key events.
C11_ListenerSurvivesErrors == raised # "none" => pc # "crashed"

\* C12: a failed delivery in inject_text is reported and goes no further:
\* inject_text and stop_recording return, the session is idle, the text was
\* handed over once and is not kept once stop_recording has returned.
C12_InjectionFailureReported ==
    /\ raised # "InjectionError"
    /\ reported = "Failed to inject text" =>
           /\ raised = "none" /\ pc \in {"cleanup", "idle"}
           /\ ~is_recording /\ openStreams = 0 /\ transcribing = 0
           /\ injectCalls = 1
           /\ pc = "idle" => text = <<>> /\ segments = <<>> /\ delivered = NoText

\* after a failed injection a later key event has been handled
C12_Witness ==
    /\ reported = "Failed to inject text" /\ pc = "idle"
    /\ held = {} /\ raised = "none"

\* C13: the start sound is fired only once the stream of the session has
\* been created and started; a session whose stream fails to open or start
\* has no start sound.
C13_StartSoundAfterStreamStarted ==
    /\ startSounds >= 1 => stream \in {"active", "closed"}
    /\ pc = "start_stream" => startSounds = 0
    /\ raised = "DeviceError" => startSounds = 0

\* the stream of a second session failed to open, after a first session
\* that had its sound
C13_Witness == raised = "DeviceError" /\ stream = "closed" /\ startSounds = 0

\* positions at which stop_recording has read audio_data, or is about to
ReadPcs == {"drain", "transcribe", "inject", "cleanup"}

\* C14: under every interleaving of the audio thread with the listener
\* thread, audio_data grows only by an append of the audio callback, made
\* while the stream is active; stop_recording reads it only once the stream
\* is stopped, and nothing is appended at or after the read.
C14_NoAppendAfterRead ==
    /\ [](pc \in ReadPcs => stream # "active")
    /\ [](pc \in {"transcribe", "inject", "cleanup"} =>
              audio = Flatten(Concatenate(audio_data)))
    /\ [][audio_data' # audio_data =>
              \/ audio_data' = <<>> /\ pc = "idle" /\ pc' = "start_stream"
              \/ /\ stream = "active" /\ pc \notin ReadPcs
                 /\ UNCHANGED pc
                 /\ \E c \in Chunks : audio_data' = Append(audio_data, c)]_vars

\* two chunks were delivered, the stream was stopped, and stop_recording
\* has read them
C14_Witness ==
    /\ pc = "transcribe" /\ stream = "closed" /\ Len(audio_data) = 2
    /\ audio # NoAudio

\* frames in the chunks of data before chunk i
RECURSIVE FramesBefore(_, _)
FramesBefore(data, i) ==
    IF i <= 1 THEN 0 ELSE FramesBefore(data, i - 1) + Len(data[i - 1])

\* C15: draining zero chunks gives the no-audio outcome, never an empty
\* sample sequence handed on as audio; draining chunks c1..cn gives their
\* samples in arrival order, each once: frame j of chunk i is sample number
\* (frames of c1..c(i-1)) + j, and there are no other samples.
C15_DrainIsConcatenation ==
    /\ (streamStops = 1 /\ audio_data = <<>>) =>
           audio = NoAudio /\ transcribeCalls = 0
    /\ pc \in {"transcribe", "inject", "cleanup"} =>
           /\ audio # NoAudio /\ audio # <<>> /\ audio_data # <<>>
           /\ Len(audio) = FramesBefore(audio_data, Len(audio_data) + 1)
           /\ \A i \in 1..Len(audio_data) : \A j \in 1..Len(audio_data[i]) :
                  audio[FramesBefore(audio_data, i) + j] = audio_data[i][j][1]

\* a block of two frames followed by a block of one
C15_Witness ==
    /\ pc = "transcribe"
    /\ audio_data = << << <<1>>, <<2>> >>, << <<2>> >> >>
    /\ audio = <<1, 2, 2>>

\* C16: the buffer starts every session empty: audio_data holds exactly the
\* blocks delivered since the session's start_recording, and the audio handed
\* to the engine is made of those blocks only, none from an earlier session.
C16_BufferHoldsThisSessionOnly ==
    /\ audio_data = sessionChunks
    /\ pc = "start_stream" => audio_data = <<>>
    /\ pc \in {"transcribe", "inject", "cleanup"} =>
           audio = Flatten(Concatenate(sessionChunks))

\* a session started right after a transcription, so after a session that
\* had audio, is transcribing its own single block
C16_Witness ==
    /\ queuedStart /\ pc = "transcribe"
    /\ sessionChunks = << << <<2>> >> >> /\ audio = <<2>>

\* C17: a call of stop_recording made while no recording is active returns
\* without raising and changes nothing: the stream, the feedback sounds, the
\* engine, the injection and every field stay as they were.
C17_StopIsIdempotent ==
    [][(stopCall' # stopCall /\ stopCall' # "none" /\ ~is_recording) =>
           /\ stopCall' = "noop"
           /\ UNCHANGED <<cfgVars, keyVars, queue, pc, is_recording, audio_data,
                          stream, txtVars, raised, reported, openStreams,
                          transcribing, queuedStart, sessionChunks, cntVars>>]_vars

\* stop_recording was called again after a recording had been stopped
C17_Witness ==
    /\ stopCall = "noop" /\ pc = "idle" /\ ~is_recording
    /\ stream = "closed" /\ streamStops = 1 /\ raised = "none"

\* all_required_pressed as the flags stand before the handler runs
AllRequiredPressed == \A r \in Roles : Required(r) => Flag(r)

\* C18: under every configuration, start_recording is entered only by the
\* press of a mapped key that takes all_required_pressed from false to true,
\* and stop_recording only by the release of a mapped key that takes it from
\* true to false while recording; unmapped keys start and stop nothing.
C18_StartStopOnEdgesOnly ==
    [][/\ (pc = "idle" /\ pc' = "start_stream") =>
              /\ event'.type = "press" /\ RoleOf(event'.key) # "none"
              /\ ~AllRequiredPressed /\ all_pressed'
       /\ (pc = "idle" /\ pc' = "stop_stream") =>
              /\ event'.type = "release" /\ RoleOf(event'.key) # "none"
              /\ AllRequiredPressed /\ ~all_pressed' /\ is_recording]_vars

\* the same statement for the configurations that require a role
C18_EdgesWhenARoleIsRequired ==
    [][(\E r \in Roles : Required(r)) =>
       /\ (pc = "idle" /\ pc' = "start_stream") =>
              /\ event'.type = "press" /\ RoleOf(event'.key) # "none"
              /\ ~AllRequiredPressed /\ all_pressed'
       /\ (pc = "idle" /\ pc' = "stop_stream") =>
              /\ event'.type = "release" /\ RoleOf(event'.key) # "none"
              /\ AllRequiredPressed /\ ~all_pressed' /\ is_recording]_vars

\* C19: under a configuration that requires a role, and as long as nothing
\* raised, whenever a key handler has returned is_recording is true exactly
\* when every required role is registered as pressed.
C19_RecordingIffAllRequiredPressed ==
    (pc = "idle" /\ raised = "none" /\ \E r \in Roles : Required(r)) =>
        (is_recording <=> AllRequiredPressed)

\* cmd and shift are required and held together with an unmapped key: the
\* press handler has returned and the recording is on
C19_Witness ==
    /\ pc = "idle" /\ handled /\ raised = "none"
    /\ USE_CMD /\ USE_SHIFT /\ ~USE_OPTION /\ ~USE_CTRL
    /\ cmd_pressed /\ shift_pressed /\ "a" \in held
    /\ is_recording /\ stream = "active"

\* the session is idle: no recording, no stream open, no call in progress
SessionIdle ==
    pc = "idle" /\ ~is_recording /\ openStreams = 0 /\ transcribing = 0

\* C20: once the release of a required key has entered stop_recording during
\* a recording, the session gets back to idle, on the no-audio path, the
\* empty-text path and the injected-text path, unless a call raised instead
\* of returning.
C20_SessionReturnsToIdle ==
    (pc = "stop_stream" /\ event.type = "release") ~>
        (SessionIdle \/ raised # "none")

\* a session went through stop, transcription and injection and is idle again
C20_Witness ==
    /\ SessionIdle /\ raised = "none" /\ stream = "closed"
    /\ streamStops = 1 /\ stopSounds = 1 /\ transcribeCalls = 1 /\ injectCalls = 1

====
